---- MODULE Spec2Model ----
(***************************************************************************)
(* rrweb-uploader: the in-memory session registry and the two ingestion    *)
(* paths (header secret, beacon token) of the Express server, and the      *)
(* finish handlers that publish a session's buffer to Google Drive.        *)
(*                                                                         *)
(* The model follows the most complete server variant (the one that has    *)
(* /replay/start, the beacon routes and /replay/merge).  A handler without *)
(* an await is one atomic action.  The finish handlers suspend once, at    *)
(* `await drive.files.create(...)`: they are split into a Begin action (up *)
(* to the await) and a Resolve / Reject action (the continuation).         *)
(***************************************************************************)
EXTENDS Bags, FiniteSets, Integers, Sequences, TLC

VARIABLES
  REPLAY_SECRET,  \* process.env.REPLAY_SECRET || ""
  driveReady,     \* drive && DRIVE_FOLDER_ID
  sessions,       \* const sessions = new Map(): id -> session object
  created,        \* number of session objects allocated so far
  now,            \* Date.now()
  pending,        \* bag of finish handlers suspended in drive.files.create
  resp,           \* the HTTP response sent by the last step
  parts,          \* const parts = [] of the /replay/merge handler in progress
  merged          \* the array that res.json(merged) sent with the last response

vars == <<REPLAY_SECRET, driveReady, sessions, created, now, pending, resp, parts, merged>>

-----------------------------------------------------------------------------
(* Bounds of the model *)

\* events buffered in the registry, all sessions together
MaxBuffer == 2

\* session objects allocated in one run
MaxSessions == 2

\* finish handlers suspended in the publisher call at one time
MaxInFlight == 2

\* the clock stops here
MaxNow == 1860000

\* files fetched by one merge request
MaxParts == 2

\* event records in the files of one merge request, all files together
MaxMergeEvents == 4

-----------------------------------------------------------------------------
(* JavaScript values *)

Undefined == "<undefined>"

\* a field holding no time yet (lastChunkAt before the first chunk)
NoTime == -1

\* a response without an events field
NoCount == -1

\* the object literal { events: [], meta: {} } of the finish handler: no session object
NoObject == 0

Ids == {"s1", "s2"}

SECRET == "s3cret"

UndefinedMeta == [defined |-> FALSE, map |-> {}]

Obj(m) == [defined |-> TRUE, map |-> m]

\* meta || {}
OrEmpty(meta) == IF meta.defined THEN meta.map ELSE {}

Keys(m) == {p[1] : p \in m}

\* { ...a, ...b }: the keys of b win
Spread(a, b) == {p \in a : p[1] \notin Keys(b)} \cup b

Event(t) == [timestamp |-> t]

NotArray == [isArray |-> FALSE, items |-> <<>>]

Arr(s) == [isArray |-> TRUE, items |-> s]

\* a test that takes only the empty string for falsy
FalsyEmptyString(v) == v = ""

\* !v for a string-valued header, id or token
Falsy(v) == v = Undefined \/ v = ""

-----------------------------------------------------------------------------
(* Requests and responses *)

SessionIdInputs == Ids \cup {Undefined}

\* the n-th session object's token, when makeToken() minted one for it
TokenOf(n) == "tok" \o ToString(n)

\* the X-Replay-Secret header: none, the secret, an empty one, or a session's token
HeaderInputs == {Undefined, SECRET, "", TokenOf(1)}

EventsInputs == {NotArray, Arr(<<>>), Arr(<<Event(10)>>), Arr(<<Event(20)>>)}

\* the meta of a start request
StartMetaInputs == {UndefinedMeta, Obj({<<"url", "/a">>, <<"ref", "/r">>})}

\* the meta of a finish request: it overrides url and adds duration
FinishMetaInputs == {Obj({<<"url", "/b">>, <<"duration", "1">>})}

\* a beacon body: text that JSON.parse rejects, or a parsed payload
MalformedBody == [malformed |-> TRUE, sessionId |-> Undefined, token |-> Undefined, events |-> NotArray, meta |-> UndefinedMeta]

Body(sessionId, token, events, meta) == [malformed |-> FALSE, sessionId |-> sessionId, token |-> token, events |-> events, meta |-> meta]

\* the token field of a beacon body: none, a minted token, or the header secret
TokenInputs == {Undefined, SECRET} \cup {TokenOf(n) : n \in 1..MaxSessions}

\* a response: the route, the status, the text sent, and the fields of a JSON answer
Response(op, status, body) == [op |-> op, status |-> status, body |-> body, sessionToken |-> Undefined, events |-> NoCount]

\* the step sent no response
NoResponse == Response("none", 0, "")

-----------------------------------------------------------------------------
(* Helpers of the server *)

\* a generator that mints the same token again
makeTokenReused == TokenOf(1)

\* Math.random() + Date.now(): a token no earlier session holds
makeToken == TokenOf(created + 1)

\* checkSecret calls next()
\* a check that lets a call without the header through
checkSecretHeaderOptional(incoming) ==
  incoming = Undefined \/ ~(Falsy(REPLAY_SECRET) \/ incoming # REPLAY_SECRET)

\* a check that lets every call through when no secret is configured
checkSecretFailOpen(incoming) == Falsy(REPLAY_SECRET) \/ incoming = REPLAY_SECRET

checkSecret(incoming) == ~(Falsy(REPLAY_SECRET) \/ incoming # REPLAY_SECRET)

\* a test that finds no session
hasNever(id) == FALSE

has(id) == id \in DOMAIN sessions

\* a set that starts a new Map
setOnly(id, s) == [k \in {id} |-> s]

set(id, s) == [k \in (DOMAIN sessions) \cup {id} |-> IF k = id THEN s ELSE sessions[k]]

\* a delete that clears the Map
deleteAll(id) == [k \in {} |-> NoObject]

delete(id) == [k \in (DOMAIN sessions) \ {id} |-> sessions[k]]

\* a lookup that accepts a token some session holds, whichever session it is
getSessionByAnyToken(sessionId, token) ==
  /\ has(sessionId)
  /\ ~Falsy(token)
  /\ \E a \in DOMAIN sessions : sessions[a].token = token

\* a lookup that compares the tokens and does not ask for one
getSessionByTokenCompareOnly(sessionId, token) ==
  has(sessionId) /\ sessions[sessionId].token = token

\* a lookup that takes the header secret for a token
getSessionByTokenOrSecret(sessionId, token) ==
  /\ has(sessionId)
  /\ ~Falsy(token)
  /\ sessions[sessionId].token = token \/ token = REPLAY_SECRET

\* a lookup that lets a call without a token through
getSessionByTokenIfGiven(sessionId, token) ==
  has(sessionId) /\ (Falsy(token) \/ sessions[sessionId].token = token)

\* TRUE when getSessionByToken returns the session, FALSE when it returns null
getSessionByToken(sessionId, token) ==
  IF ~has(sessionId) THEN FALSE
  ELSE IF Falsy(token) \/ sessions[sessionId].token # token THEN FALSE
  ELSE TRUE

\* a push that skips the events the buffer already holds
pushUnique(s, events) ==
  [s EXCEPT !.events = s.events \o SelectSeq(events, LAMBDA e : \A i \in 1..Len(s.events) : s.events[i] # e)]

\* a push that replaces the buffer by the new events
pushAssign(s, events) == [s EXCEPT !.events = events]

\* s.events.push(...events)
push(s, events) == [s EXCEPT !.events = s.events \o events]

\* the object /replay/start stores
StartedSession(meta) ==
  [oid |-> created + 1, events |-> <<>>, meta |-> Obj(OrEmpty(meta)), startedAt |-> now,
   token |-> makeToken, lastChunkAt |-> NoTime]

\* the object /replay/chunk stores for an id it has not seen
ImplicitSession ==
  [oid |-> created + 1, events |-> <<>>, meta |-> UndefinedMeta, startedAt |-> now,
   token |-> Undefined, lastChunkAt |-> NoTime]

RECURSIVE Insert(_, _)
Insert(e, sorted) ==
  IF sorted = <<>> THEN <<e>>
  ELSE IF e.timestamp < Head(sorted).timestamp THEN <<e>> \o sorted
  ELSE <<Head(sorted)>> \o Insert(e, Tail(sorted))

RECURSIVE SortByTimestamp(_)
SortByTimestamp(events) ==
  IF events = <<>> THEN <<>>
  ELSE Insert(events[Len(events)], SortByTimestamp(SubSeq(events, 1, Len(events) - 1)))

\* an artifact whose events are put in timestamp order
ArtifactSorted(sessionId, sMeta, sEvents, meta) ==
  [sessionId |-> sessionId, createdAt |-> now, meta |-> Spread(OrEmpty(sMeta), OrEmpty(meta)),
   events |-> SortByTimestamp(sEvents), counts |-> Len(sEvents)]

\* const data = { sessionId, createdAt, meta: combinedMeta, events, counts }
Artifact(sessionId, sMeta, sEvents, meta) ==
  [sessionId |-> sessionId, createdAt |-> now, meta |-> Spread(OrEmpty(sMeta), OrEmpty(meta)),
   events |-> sEvents, counts |-> Len(sEvents)]

One(x) == SetToBag({x})

RECURSIVE Buffered(_)
\* events held by the sessions with an id in S
Buffered(S) ==
  IF S = {} THEN 0
  ELSE LET id == CHOOSE k \in S : TRUE IN Len(sessions[id].events) + Buffered(S \ {id})

\* room for n more events in the registry
BufferRoom(n) == Buffered(DOMAIN sessions) + n <= MaxBuffer

\* the last response is out: the event loop takes the next request or continuation
Ready == resp = NoResponse

\* room for one more finish handler in the publisher call
PublishRoom == BagCardinality(pending) < MaxInFlight

-----------------------------------------------------------------------------
(* Header-authenticated routes *)

\* app.post("/replay/start", checkSecret, ...)
Start(sessionId, incoming, meta) ==
  /\ Ready
  /\ (checkSecret(incoming) /\ ~Falsy(sessionId) /\ ~has(sessionId)) => created < MaxSessions
  /\ IF ~checkSecret(incoming)
       THEN /\ resp' = Response("start", 401, "unauthorized")
            /\ UNCHANGED <<sessions, created>>
     ELSE IF Falsy(sessionId)
       THEN /\ resp' = Response("start", 400, "missing sessionId")
            /\ UNCHANGED <<sessions, created>>
     ELSE /\ sessions' = IF has(sessionId) THEN sessions ELSE set(sessionId, StartedSession(meta))
          /\ created' = IF has(sessionId) THEN created ELSE created + 1
          /\ resp' = [Response("start", 200, "ok") EXCEPT !.sessionToken = sessions'[sessionId].token]
  /\ UNCHANGED <<parts, merged, REPLAY_SECRET, driveReady, now, pending>>

\* app.post("/replay/chunk", checkSecret, ...)
Chunk(sessionId, incoming, events) ==
  LET accepted == checkSecret(incoming) /\ ~Falsy(sessionId) /\ events.isArray
      s == IF has(sessionId) THEN sessions[sessionId] ELSE ImplicitSession
  IN  /\ Ready
      /\ (accepted /\ ~has(sessionId)) => created < MaxSessions
      /\ accepted => BufferRoom(Len(events.items))
      /\ IF ~checkSecret(incoming)
           THEN /\ resp' = Response("chunk", 401, "unauthorized")
                /\ UNCHANGED <<sessions, created>>
         ELSE IF Falsy(sessionId) \/ ~events.isArray
           THEN /\ resp' = Response("chunk", 400, "missing sessionId or events")
                /\ UNCHANGED <<sessions, created>>
         ELSE /\ sessions' = set(sessionId, [push(s, events.items) EXCEPT !.lastChunkAt = now])
              /\ created' = IF has(sessionId) THEN created ELSE created + 1
              /\ resp' = Response("chunk", 200, "ok")
      /\ UNCHANGED <<parts, merged, REPLAY_SECRET, driveReady, now, pending>>

\* app.post("/replay/finish", checkSecret, async ...) up to `await drive.files.create`
FinishBegin(sessionId, incoming, meta) ==
  LET known == has(sessionId)
      sMeta == IF known THEN sessions[sessionId].meta ELSE Obj({})
      sEvents == IF known THEN sessions[sessionId].events ELSE <<>>
      call == [op |-> "finish", sessionId |-> sessionId,
               s |-> IF known THEN sessions[sessionId].oid ELSE NoObject,
               data |-> Artifact(sessionId, sMeta, sEvents, meta)]
  IN  /\ Ready
      /\ (checkSecret(incoming) /\ ~Falsy(sessionId) /\ driveReady) => PublishRoom
      /\ IF ~checkSecret(incoming)
           THEN /\ resp' = Response("finish", 401, "unauthorized")
                /\ UNCHANGED pending
         ELSE IF Falsy(sessionId)
           THEN /\ resp' = Response("finish", 400, "missing sessionId")
                /\ UNCHANGED pending
         ELSE IF ~driveReady
           THEN /\ resp' = Response("finish", 500, "drive not configured")
                /\ UNCHANGED pending
         ELSE /\ pending' = pending (+) One(call)
              /\ resp' = NoResponse
      /\ UNCHANGED <<parts, merged, REPLAY_SECRET, driveReady, sessions, created, now>>

\* drive.files.create resolved: the file exists, the handler deletes the id and answers
FinishResolve(call) ==
  /\ Ready
  /\ BagIn(call, pending)
  /\ pending' = pending (-) One(call)
  /\ sessions' = delete(call.sessionId)
  /\ resp' = [Response(call.op, 200, "uploaded") EXCEPT !.events = call.data.counts]
  /\ UNCHANGED <<parts, merged, REPLAY_SECRET, driveReady, created, now>>

\* drive.files.create rejected: the catch block answers 500
FinishReject(call) ==
  /\ Ready
  /\ BagIn(call, pending)
  /\ pending' = pending (-) One(call)
  /\ resp' = Response(call.op, 500,
                      IF call.op = "finish" THEN "upload error" ELSE "finish-beacon error")
  /\ UNCHANGED <<parts, merged, REPLAY_SECRET, driveReady, sessions, created, now>>

-----------------------------------------------------------------------------
(* Beacon routes: the body is raw text, the session token is the credential *)

\* app.post("/replay/chunk-beacon", async ...)
ChunkBeacon(body) ==
  LET sessionId == body.sessionId
      events == body.events
      accepted == ~body.malformed /\ getSessionByToken(sessionId, body.token)
      grown == events.isArray /\ Len(events.items) > 0
  IN  /\ Ready
      /\ (accepted /\ grown) => BufferRoom(Len(events.items))
      /\ IF body.malformed
           THEN /\ resp' = Response("chunk-beacon", 500, "chunk-beacon error")
                /\ UNCHANGED sessions
         ELSE IF ~getSessionByToken(sessionId, body.token)
           THEN /\ resp' = Response("chunk-beacon", 401, "unauthorized")
                /\ UNCHANGED sessions
         ELSE /\ sessions' = set(sessionId,
                   [(IF grown THEN push(sessions[sessionId], events.items) ELSE sessions[sessionId])
                      EXCEPT !.lastChunkAt = now])
              /\ resp' = Response("chunk-beacon", 200, "ok")
      /\ UNCHANGED <<parts, merged, REPLAY_SECRET, driveReady, created, now, pending>>

\* app.post("/replay/finish-beacon", async ...) up to `await drive.files.create`
FinishBeaconBegin(body) ==
  LET sessionId == body.sessionId
      accepted == ~body.malformed /\ getSessionByToken(sessionId, body.token)
      call == [op |-> "finish-beacon", sessionId |-> sessionId, s |-> sessions[sessionId].oid,
               data |-> Artifact(sessionId, sessions[sessionId].meta, sessions[sessionId].events, body.meta)]
  IN  /\ Ready
      /\ (accepted /\ driveReady) => PublishRoom
      /\ IF body.malformed
           THEN /\ resp' = Response("finish-beacon", 500, "finish-beacon error")
                /\ UNCHANGED pending
         ELSE IF ~getSessionByToken(sessionId, body.token)
           THEN /\ resp' = Response("finish-beacon", 401, "unauthorized")
                /\ UNCHANGED pending
         ELSE IF ~driveReady
           THEN /\ resp' = Response("finish-beacon", 500, "drive not configured")
                /\ UNCHANGED pending
         ELSE /\ pending' = pending (+) One(call)
              /\ resp' = NoResponse
      /\ UNCHANGED <<parts, merged, REPLAY_SECRET, driveReady, sessions, created, now>>

-----------------------------------------------------------------------------
(* The clock *)

\* the idle window and the sweep period the specification asks for; no handler reads them
IdleTimeoutMs == 1800000

SweepIntervalMs == 60000

\* d milliseconds pass between two steps of the event loop
Tick(d) ==
  /\ Ready
  /\ now + d <= MaxNow
  /\ now' = now + d
  /\ UNCHANGED <<parts, merged, REPLAY_SECRET, driveReady, sessions, created, pending, resp>>

\* the response written by res.send / res.json reaches the client and the handler is over
Deliver ==
  /\ resp # NoResponse
  /\ resp' = NoResponse
  /\ parts' = <<>>
  /\ merged' = <<>>
  /\ UNCHANGED <<REPLAY_SECRET, driveReady, sessions, created, now, pending>>

-----------------------------------------------------------------------------
(* The merge of uploaded files *)

\* a timestamp that is undefined
NoTimestamp == -2000000000

\* e.data when it is undefined or not an object
NoData == [isObject |-> FALSE, timestamp |-> NoTimestamp]

\* e.data when it is an object; timestamp is its own timestamp field, if any
Data(timestamp) == [isObject |-> TRUE, timestamp |-> timestamp]

\* an rrweb event: { type, timestamp, data }
RrwebEvent(type, timestamp, data) == [type |-> type, timestamp |-> timestamp, data |-> data]

\* a || b: a timestamp of 0 counts as missing
CoalesceOr(a, b) == IF a # NoTimestamp /\ a # 0 THEN a ELSE b

\* a ?? b
Coalesce(a, b) == IF a # NoTimestamp THEN a ELSE b

\* a lookup that prefers the timestamp of the data to the top-level one
TimestampOrDataFirst(e, otherwise) == Coalesce(e.data.timestamp, Coalesce(e.timestamp, otherwise))

\* e.timestamp ?? e.data?.timestamp ?? otherwise
TimestampOr(e, otherwise) == Coalesce(e.timestamp, Coalesce(e.data.timestamp, otherwise))

\* Array.isArray(chunk?.events) ? chunk.events : []
EventsOf(chunk) == IF chunk.events.isArray THEN chunk.events.items ELSE <<>>

\* the gap added to the offset after each chunk
GapMs == 1000

\* const copy = { ...e, timestamp: offset + delta }, and its data.timestamp when data is an object
Rewritten(e, timestamp) ==
  [e EXCEPT !.timestamp = timestamp,
            !.data = IF e.data.isObject THEN [e.data EXCEPT !.timestamp = timestamp] ELSE e.data]

RECURSIVE MergeLoopNoGap(_, _, _)
\* a loop that advances the offset by the span of the chunk, without the gap
MergeLoopNoGap(chunks, offset, out) ==
  IF chunks = <<>> THEN out
  ELSE LET evs == EventsOf(Head(chunks))
       IN  IF Len(evs) = 0 THEN MergeLoopNoGap(Tail(chunks), offset, out)
           ELSE LET base == TimestampOr(evs[1], now)
                    delta(e) == TimestampOr(e, base) - base
                    lastT == TimestampOr(evs[Len(evs)], base)
                IN  MergeLoopNoGap(Tail(chunks), offset + (lastT - base),
                                   out \o [i \in 1..Len(evs) |-> Rewritten(evs[i], offset + delta(evs[i]))])

\* an offset that advances by the last timestamp, the base not subtracted
NextOffsetFromLast(offset, lastT, base) == offset + lastT + GapMs

\* offset += (lastT - base) + 1000
NextOffset(offset, lastT, base) == offset + (lastT - base) + GapMs

RECURSIVE MergeLoopEmptyAdvances(_, _, _)
\* a loop in which a chunk without records still moves the offset by the gap
MergeLoopEmptyAdvances(chunks, offset, out) ==
  IF chunks = <<>> THEN out
  ELSE LET evs == EventsOf(Head(chunks))
       IN  IF Len(evs) = 0 THEN MergeLoopEmptyAdvances(Tail(chunks), offset + GapMs, out)
           ELSE LET base == TimestampOr(evs[1], now)
                    delta(e) == TimestampOr(e, base) - base
                    lastT == TimestampOr(evs[Len(evs)], base)
                IN  MergeLoopEmptyAdvances(Tail(chunks), NextOffset(offset, lastT, base),
                                           out \o [i \in 1..Len(evs) |-> Rewritten(evs[i], offset + delta(evs[i]))])

RECURSIVE MergeLoop(_, _, _)
\* for (const chunk of chunks) { ... } from the given offset and merged array
MergeLoop(chunks, offset, out) ==
  IF chunks = <<>> THEN out
  ELSE LET evs == EventsOf(Head(chunks))
       IN  IF Len(evs) = 0 THEN MergeLoop(Tail(chunks), offset, out)
           ELSE LET base == TimestampOr(evs[1], now)
                    delta(e) == TimestampOr(e, base) - base
                    lastT == TimestampOr(evs[Len(evs)], base)
                IN  MergeLoop(Tail(chunks), NextOffset(offset, lastT, base),
                              out \o [i \in 1..Len(evs) |-> Rewritten(evs[i], offset + delta(evs[i]))])

\* a merge without the final sort
mergeRrwebEventsUnsorted(chunks) == MergeLoop(chunks, 0, <<>>)

\* a merge whose offset starts at the gap
mergeRrwebEventsFromGap(chunks) == SortByTimestamp(MergeLoop(chunks, GapMs, <<>>))

RECURSIVE Distinct(_)
Distinct(s) ==
  IF Len(s) <= 1 THEN s
  ELSE IF s[1] = s[2] THEN Distinct(Tail(s))
  ELSE <<s[1]>> \o Distinct(Tail(s))

\* a merge that keeps one of several equal records
mergeRrwebEventsDistinct(chunks) == Distinct(SortByTimestamp(MergeLoop(chunks, 0, <<>>)))

\* function mergeRrwebEvents(chunks)
mergeRrwebEvents(chunks) == SortByTimestamp(MergeLoop(chunks, 0, <<>>))

RECURSIVE chunksRewrittenInPlace(_)
\* a loop that writes the new timestamps into the records of the chunks themselves
chunksRewrittenInPlace(chunks) ==
  IF chunks = <<>> THEN <<>>
  ELSE LET out == MergeLoop(<<Head(chunks)>>, 0, <<>>)
       IN  <<IF out = <<>> THEN Head(chunks) ELSE [events |-> Arr(out)]>> \o chunksRewrittenInPlace(Tail(chunks))

\* the chunks after the call: the loop writes to `copy` and `merged` only, and sorts `merged`
chunksAfterMerge(chunks) == chunks

\* what JSON.parse gives for a fetched file: a bare array of events, or an object
JsonArray(items) == [isArray |-> TRUE, items |-> items, events |-> NotArray]

JsonObject(events) == [isArray |-> FALSE, items |-> <<>>, events |-> events]

\* Array.isArray(json) ? { events: json } : json
Part(json) == IF json.isArray THEN [events |-> Arr(json.items)] ELSE [events |-> json.events]

RECURSIVE Fetched(_)
\* event records in the parts fetched so far
Fetched(ps) == IF ps = <<>> THEN 0 ELSE Len(EventsOf(Head(ps))) + Fetched(Tail(ps))

\* the event records found in the files
RecordInputs ==
  { RrwebEvent(2, 0, Data(0)),
    RrwebEvent(3, 500, Data(NoTimestamp)),
    RrwebEvent(3, 100, NoData),
    RrwebEvent(3, 900, Data(100)),
    RrwebEvent(3, 2000, NoData),
    RrwebEvent(3, NoTimestamp, Data(500)),
    RrwebEvent(3, NoTimestamp, NoData) }

\* the files a request may fetch when n more event records are allowed
JsonInputs(n) ==
  LET arrays == UNION {[1..k -> RecordInputs] : k \in 0..n}
  IN  {JsonArray(a) : a \in arrays} \cup {JsonObject(Arr(a)) : a \in arrays} \cup {JsonObject(NotArray)}

\* the files the loop may fetch next: none once the request is answered or full
FetchInputs ==
  IF Ready /\ driveReady /\ Len(parts) < MaxParts
    THEN JsonInputs(MaxMergeEvents - Fetched(parts))
    ELSE {}

\* GET /replay/merge without ids
MergeNoIds ==
  /\ Ready
  /\ parts = <<>>
  /\ resp' = Response("merge", 400, "no ids provided")
  /\ UNCHANGED <<parts, merged, REPLAY_SECRET, driveReady, sessions, created, now, pending>>

\* one turn of the loop: await getDriveJson(id) resolved with json
MergeFetch(json) ==
  /\ Ready
  /\ driveReady
  /\ Len(parts) < MaxParts
  /\ parts' = Append(parts, Part(json))
  /\ UNCHANGED <<merged, REPLAY_SECRET, driveReady, sessions, created, now, pending, resp>>

\* getDriveJson(id) threw (no drive client, the fetch failed, the file is not JSON)
MergeFetchReject ==
  /\ Ready
  /\ Len(parts) < MaxParts
  /\ parts' = <<>>
  /\ resp' = Response("merge", 500, "merge error")
  /\ UNCHANGED <<merged, REPLAY_SECRET, driveReady, sessions, created, now, pending>>

\* the loop is over: const merged = mergeRrwebEvents(parts); res.json(merged)
MergeRespond ==
  /\ Ready
  /\ Len(parts) > 0
  /\ merged' = mergeRrwebEvents(parts)
  /\ parts' = chunksAfterMerge(parts)
  /\ resp' = Response("merge", 200, "merged")
  /\ UNCHANGED <<REPLAY_SECRET, driveReady, sessions, created, now, pending>>

-----------------------------------------------------------------------------
(* The server *)

EmptyMap == [k \in {} |-> NoObject]

Init ==
  /\ REPLAY_SECRET \in {"", SECRET}
  /\ driveReady \in BOOLEAN
  /\ sessions = EmptyMap
  /\ created = 0
  /\ now = 0
  /\ pending = EmptyBag
  /\ resp = NoResponse
  /\ parts = <<>>
  /\ merged = <<>>

ChunkBodies(ids, batches) ==
  {MalformedBody} \cup
  {Body(sessionId, token, events, UndefinedMeta) :
     sessionId \in ids, token \in TokenInputs, events \in batches}

FinishBodies(ids) ==
  {MalformedBody} \cup
  {Body(sessionId, token, NotArray, meta) :
     sessionId \in ids, token \in TokenInputs, meta \in FinishMetaInputs}

Next ==
  \/ \E sessionId \in SessionIdInputs, incoming \in HeaderInputs, meta \in StartMetaInputs :
       Start(sessionId, incoming, meta)
  \/ \E sessionId \in SessionIdInputs, incoming \in HeaderInputs, events \in EventsInputs :
       Chunk(sessionId, incoming, events)
  \/ \E sessionId \in SessionIdInputs, incoming \in HeaderInputs, meta \in FinishMetaInputs :
       FinishBegin(sessionId, incoming, meta)
  \/ \E body \in ChunkBodies(SessionIdInputs, EventsInputs) : ChunkBeacon(body)
  \/ \E body \in FinishBodies(SessionIdInputs) : FinishBeaconBegin(body)
  \/ \E call \in BagToSet(pending) : FinishResolve(call)
  \/ \E call \in BagToSet(pending) : FinishReject(call)
  \/ Deliver

Spec == Init /\ [][Next]_vars

\* the requests of the run with the clock: one session id, one event per chunk
ClockIds == {"s1"}

ClockEvents == {Arr(<<Event(10)>>)}

\* the same server with the clock running
NextClock ==
  \/ \E incoming \in HeaderInputs, meta \in StartMetaInputs : Start("s1", incoming, meta)
  \/ \E incoming \in HeaderInputs, events \in ClockEvents : Chunk("s1", incoming, events)
  \/ \E incoming \in HeaderInputs, meta \in FinishMetaInputs : FinishBegin("s1", incoming, meta)
  \/ \E body \in ChunkBodies(ClockIds, ClockEvents) : ChunkBeacon(body)
  \/ \E body \in FinishBodies(ClockIds) : FinishBeaconBegin(body)
  \/ \E call \in BagToSet(pending) : FinishResolve(call)
  \/ \E call \in BagToSet(pending) : FinishReject(call)
  \/ Deliver
  \/ Tick(IdleTimeoutMs + SweepIntervalMs)

SpecClock == Init /\ [][NextClock]_vars

-----------------------------------------------------------------------------
(* Vocabulary of the claims *)

\* the calls that enter the publisher in this step
Entering(call) == CopiesIn(call, pending') > CopiesIn(call, pending)

NonDecreasing(events) ==
  \A i \in 1..Len(events) : \A j \in i..Len(events) : events[i].timestamp <= events[j].timestamp

\* the last time a request touched the session
LastActivity(s) == IF s.lastChunkAt = NoTime THEN s.startedAt ELSE s.lastChunkAt

HeaderOk == checkSecret(REPLAY_SECRET)

\* the step answered 401 "unauthorized", changed no session and started no publisher call
Refused ==
  /\ resp'.status = 401 /\ resp'.body = "unauthorized"
  /\ UNCHANGED <<sessions, created, pending>>

-----------------------------------------------------------------------------
(* C1: a finish that finds no session under its id fails with the unknown-session
   error and hands nothing to the publisher.  The handler instead falls back to
   { events: [], meta: {} } and uploads an empty artifact. *)
C1_FinishUnknownSession ==
  [][\A sessionId \in Ids, meta \in FinishMetaInputs :
       (HeaderOk /\ driveReady /\ ~has(sessionId) /\ FinishBegin(sessionId, REPLAY_SECRET, meta))
         => (resp'.body = "unknown session" /\ pending' = pending)]_vars

(* C2: over any interleaving of finish and finish-beacon requests, at most one
   publisher call is made with a given session's buffer: no two suspended finish
   handlers hold the same session object.  The handlers delete the session only
   after the publisher call, so a second finish reads the same session. *)
C2_AtMostOnePublishPerSession ==
  \A p \in BagToSet(pending) :
    (p.s # NoObject /\ Len(p.data.events) > 0) =>
      /\ CopiesIn(p, pending) = 1
      /\ \A q \in BagToSet(pending) : q # p => q.s # p.s

(* C3: when the publisher call of a finish fails, the caller gets a hard failure and
   the session the handler read is no longer in the registry. *)
C3_FailedPublishLosesSession ==
  [][\A call \in BagToSet(pending) :
       (call.s # NoObject /\ FinishReject(call))
         => /\ resp'.status = 500
            /\ ~(call.sessionId \in DOMAIN sessions' /\ sessions'[call.sessionId].oid = call.s)]_vars

(* C4: an accepted chunk call appends its events to the session's buffer: the buffer
   after the call is the buffer before it (empty for a fresh id) followed by the
   events of the call, in their order, nothing dropped, so its length grows by the
   length of the call's sequence. *)
C4_ChunkAppends ==
  [][\A sessionId \in Ids, events \in EventsInputs :
       (Chunk(sessionId, REPLAY_SECRET, events) /\ resp'.status = 200)
         => LET before == IF has(sessionId) THEN sessions[sessionId].events ELSE <<>>
            IN  /\ sessions'[sessionId].events = before \o events.items
                /\ Len(sessions'[sessionId].events) = Len(before) + Len(events.items)]_vars

\* two accepted chunks, the later one with the earlier timestamp, are buffered in arrival order
C4_Witness ==
  /\ resp.op = "chunk" /\ resp.status = 200
  /\ has("s1") /\ sessions["s1"].events = <<Event(20), Event(10)>>

(* C5: the events of every artifact handed to the publisher are in non-decreasing
   timestamp order.  The finish handlers hand over the buffer as it is. *)
C5_ArtifactTimeAscending ==
  \A call \in BagToSet(pending) : NonDecreasing(call.data.events)

(* C6: a session idle for longer than the idle timeout is gone after the next sweep
   tick: no session of the registry has been idle for the idle timeout plus one
   sweep period.  The server has no sweep. *)
C6_IdleSessionEvicted ==
  \A id \in DOMAIN sessions : now - LastActivity(sessions[id]) < IdleTimeoutMs + SweepIntervalMs

(* C7: a beacon call that carries the token of a session A with another sessionId B
   is answered 401 unauthorized, and it changes no session and starts no publisher
   call. *)
C7_TokenOfAnotherSession ==
  [][\A a \in DOMAIN sessions, b \in SessionIdInputs :
       (a # b /\ ~Falsy(sessions[a].token)) =>
         \/ Refused
         \/ ~ \/ \E events \in EventsInputs :
                   ChunkBeacon(Body(b, sessions[a].token, events, UndefinedMeta))
              \/ \E meta \in FinishMetaInputs :
                   FinishBeaconBegin(Body(b, sessions[a].token, NotArray, meta))]_vars

\* a beacon was refused while one session holds a token and another one holds events
C7_Witness ==
  /\ resp.op \in {"chunk-beacon", "finish-beacon"} /\ resp.status = 401
  /\ \E a \in DOMAIN sessions, b \in DOMAIN sessions :
       a # b /\ ~Falsy(sessions[a].token) /\ Len(sessions[b].events) > 0

(* C8: the artifact's meta is the start meta overridden by the finish meta, whatever
   the order of the accepted start and chunk calls: the first accepted start of a
   session stores its meta (also when a chunk created the session), and the finish
   merges the stored meta with its own.  A start on a session that a chunk created
   drops its meta. *)
C8_StartMetaReachesArtifact ==
  [][/\ \A sessionId \in Ids, meta \in StartMetaInputs :
          ( /\ ~has(sessionId) \/ sessions[sessionId].token = Undefined
            /\ Start(sessionId, REPLAY_SECRET, meta) /\ resp'.status = 200 )
            => OrEmpty(sessions'[sessionId].meta) = OrEmpty(meta)
     /\ \A sessionId \in Ids, meta \in FinishMetaInputs :
          (has(sessionId) /\ HeaderOk /\ driveReady /\ FinishBegin(sessionId, REPLAY_SECRET, meta))
            => \E call \in BagToSet(pending') :
                 /\ Entering(call)
                 /\ call.data.meta = Spread(OrEmpty(sessions[sessionId].meta), OrEmpty(meta))]_vars

(* C9: a successful finish of a session hands the publisher the session's buffer as
   it is when the handler reads it, same events in the same order, and the count
   it returns is counts.events and the number of events of the artifact. *)
C9_FinishPublishesBuffer ==
  [][/\ \A call \in BagToSet(pending') :
          (Entering(call) /\ call.s # NoObject)
            => /\ call.data.events = sessions[call.sessionId].events
               /\ call.data.counts = Len(call.data.events)
     /\ \A call \in BagToSet(pending) :
          FinishResolve(call)
            => /\ resp'.status = 200 /\ resp'.body = "uploaded"
               /\ resp'.events = call.data.counts
               /\ resp'.events = Len(call.data.events)]_vars

\* a finish answered "uploaded" for two events
C9_Witness == resp.body = "uploaded" /\ resp.status = 200 /\ resp.events = 2

(* C10: a start, chunk or finish call whose secret header is absent or differs from
   the configured secret is answered 401 unauthorized, changes no session and
   starts no publisher call. *)
C10_BadSecretRejected ==
  [][\A sessionId \in SessionIdInputs, incoming \in HeaderInputs :
       incoming # REPLAY_SECRET =>
         \/ Refused
         \/ ~ \/ \E meta \in StartMetaInputs : Start(sessionId, incoming, meta)
              \/ \E events \in EventsInputs : Chunk(sessionId, incoming, events)
              \/ \E meta \in FinishMetaInputs : FinishBegin(sessionId, incoming, meta)]_vars

\* a header call was refused while the registry holds events and a publisher call is open
C10_Witness ==
  /\ resp.op \in {"start", "chunk", "finish"} /\ resp.status = 401
  /\ REPLAY_SECRET = SECRET
  /\ \E id \in DOMAIN sessions : Len(sessions[id].events) > 0
  /\ pending # EmptyBag

\* the merge route alone, on the files it may fetch
InitMerge ==
  /\ REPLAY_SECRET = SECRET
  /\ driveReady \in BOOLEAN
  /\ sessions = EmptyMap
  /\ created = 0
  /\ now = MaxNow
  /\ pending = EmptyBag
  /\ resp = NoResponse
  /\ parts = <<>>
  /\ merged = <<>>

NextMerge ==
  \/ MergeNoIds
  \/ \E json \in FetchInputs : MergeFetch(json)
  \/ MergeFetchReject
  \/ MergeRespond
  \/ Deliver

SpecMerge == InitMerge /\ [][NextMerge]_vars

\* the merge route with the clock running: a millisecond passes, Date.now() differs from one merge to the next
InitMergeClock ==
  /\ REPLAY_SECRET = SECRET
  /\ driveReady \in BOOLEAN
  /\ sessions = EmptyMap
  /\ created = 0
  /\ now = MaxNow - 1
  /\ pending = EmptyBag
  /\ resp = NoResponse
  /\ parts = <<>>
  /\ merged = <<>>

NextMergeClock ==
  \/ MergeNoIds
  \/ \E json \in FetchInputs : MergeFetch(json)
  \/ MergeFetchReject
  \/ MergeRespond
  \/ Deliver
  \/ Tick(1)

SpecMergeClock == InitMergeClock /\ [][NextMergeClock]_vars

-----------------------------------------------------------------------------
\* the step answered 400, changed no session and started no publisher call
BadRequest ==
  /\ resp'.status = 400
  /\ UNCHANGED <<sessions, created, pending>>

(* C11: a start, chunk or finish call that carries the right secret and has a bad
   shape (no sessionId; for chunk also events that are not an array) is answered
   400 and creates no session, changes no buffer and starts no publisher call. *)
C11_BadShapeRejected ==
  [][HeaderOk =>
       \/ BadRequest
       \/ ~ \/ \E meta \in StartMetaInputs : Start(Undefined, REPLAY_SECRET, meta)
            \/ \E sessionId \in SessionIdInputs, events \in EventsInputs :
                 /\ Falsy(sessionId) \/ ~events.isArray
                 /\ Chunk(sessionId, REPLAY_SECRET, events)
            \/ \E meta \in FinishMetaInputs : FinishBegin(Undefined, REPLAY_SECRET, meta)]_vars

\* a header call was answered 400 while the registry holds events and a publisher call is open
C11_Witness ==
  /\ resp.op \in {"start", "chunk", "finish"} /\ resp.status = 400
  /\ \E id \in DOMAIN sessions : Len(sessions[id].events) > 0
  /\ pending # EmptyBag

(* C12: every start answered 200 returns the token of the session, and a beacon
   that echoes the returned token with the sessionId is accepted, also when a
   chunk created the session before the start.  A start on a session that a chunk
   created finds it without a token and returns none. *)
C12_StartReturnsToken ==
  [][\A sessionId \in Ids, meta \in StartMetaInputs :
       (Start(sessionId, REPLAY_SECRET, meta) /\ resp'.status = 200)
         => /\ ~Falsy(resp'.sessionToken)
            /\ sessions'[sessionId].token = resp'.sessionToken]_vars

(* C13: a beacon whose token is missing or is not the token of the session named by
   its sessionId is answered 401 unauthorized and changes nothing; a beacon
   without token is refused also for a session that has no token. *)
C13_BadTokenRejected ==
  [][\A sessionId \in DOMAIN sessions, token \in TokenInputs :
       (Falsy(token) \/ sessions[sessionId].token # token) =>
         \/ Refused
         \/ ~ \/ \E events \in EventsInputs :
                   ChunkBeacon(Body(sessionId, token, events, UndefinedMeta))
              \/ \E meta \in FinishMetaInputs :
                   FinishBeaconBegin(Body(sessionId, token, NotArray, meta))]_vars

\* a beacon was refused while a session without token holds events
C13_Witness ==
  /\ resp.op \in {"chunk-beacon", "finish-beacon"} /\ resp.status = 401
  /\ \E id \in DOMAIN sessions :
       sessions[id].token = Undefined /\ Len(sessions[id].events) > 0

(* C14: a beacon that carries the header secret as its token is refused, and a
   start, chunk or finish whose header carries the token of a registered session
   instead of the secret is refused. *)
C14_CredentialsNotShared ==
  [][/\ \A sessionId \in SessionIdInputs :
          ~Falsy(REPLAY_SECRET) =>
            \/ Refused
            \/ ~ \/ \E events \in EventsInputs :
                      ChunkBeacon(Body(sessionId, REPLAY_SECRET, events, UndefinedMeta))
                 \/ \E meta \in FinishMetaInputs :
                      FinishBeaconBegin(Body(sessionId, REPLAY_SECRET, NotArray, meta))
     /\ \A a \in DOMAIN sessions, sessionId \in SessionIdInputs :
          (~Falsy(sessions[a].token) /\ sessions[a].token # REPLAY_SECRET) =>
            \/ Refused
            \/ ~ \/ \E meta \in StartMetaInputs : Start(sessionId, sessions[a].token, meta)
                 \/ \E events \in EventsInputs : Chunk(sessionId, sessions[a].token, events)
                 \/ \E meta \in FinishMetaInputs : FinishBegin(sessionId, sessions[a].token, meta)]_vars

\* a call was refused while the secret is set and the session that holds the first token has events
C14_Witness ==
  /\ resp.status = 401
  /\ REPLAY_SECRET = SECRET
  /\ \E id \in DOMAIN sessions :
       sessions[id].token = TokenOf(1) /\ Len(sessions[id].events) > 0

-----------------------------------------------------------------------------
(* The merge claims: MergeRespond applies mergeRrwebEvents to parts *)

Timestamps(events) == [i \in DOMAIN events |-> events[i].timestamp]

\* every record has a top-level timestamp and they do not decrease
Ascending(events) ==
  /\ \A i \in DOMAIN events : events[i].timestamp # NoTimestamp
  /\ NonDecreasing(events)

RECURSIVE Flat(_)
\* the records of the chunks, one chunk after the other
Flat(chunks) == IF chunks = <<>> THEN <<>> ELSE EventsOf(Head(chunks)) \o Flat(Tail(chunks))

RECURSIVE ChunkAt(_, _)
\* the number of the chunk that holds the i-th record of Flat(chunks)
ChunkAt(chunks, i) ==
  IF i <= Len(EventsOf(Head(chunks))) THEN 1
  ELSE 1 + ChunkAt(Tail(chunks), i - Len(EventsOf(Head(chunks))))

RECURSIVE RunningOffset(_, _)
\* the sum over the non-empty chunks before chunk k of (last - base + 1000)
RunningOffset(chunks, k) ==
  IF k = 1 THEN 0
  ELSE LET evs == EventsOf(chunks[k - 1])
       IN  RunningOffset(chunks, k - 1)
             + (IF evs = <<>> THEN 0 ELSE evs[Len(evs)].timestamp - evs[1].timestamp + 1000)

\* runningOffset_k + (r.timestamp - base_k) for the i-th record of Flat(chunks)
ExpectedTimestamp(chunks, i) ==
  LET k == ChunkAt(chunks, i)
  IN  RunningOffset(chunks, k) + (Flat(chunks)[i].timestamp - EventsOf(chunks[k])[1].timestamp)

(* C15: when every chunk is ascending in timestamp, the record r of chunk k leaves
   the merge with the timestamp runningOffset_k + (r.timestamp - base_k), in the
   order of the input; chunks [0, 500] and [100, 900] give [0, 500, 1500, 2300]. *)
C15_RewrittenTimestamps ==
  [][MergeRespond =>
       /\ (\A k \in DOMAIN parts : Ascending(EventsOf(parts[k])))
            => Timestamps(merged') = [i \in 1..Len(Flat(parts)) |-> ExpectedTimestamp(parts, i)]
       /\ ( /\ Len(parts) = 2
            /\ Timestamps(EventsOf(parts[1])) = <<0, 500>>
            /\ Timestamps(EventsOf(parts[2])) = <<100, 900>> )
            => Timestamps(merged') = <<0, 500, 1500, 2300>>]_vars

\* the merge of [0, 500] and [100, 900] was sent
C15_Witness ==
  /\ resp.op = "merge" /\ resp.status = 200
  /\ Timestamps(merged) = <<0, 500, 1500, 2300>>

(* C16: whatever the chunks, also chunks whose records are not in ascending order,
   the merged output is non-decreasing in timestamp. *)
C16_MergedNonDecreasing ==
  [][MergeRespond => NonDecreasing(merged')]_vars

\* an output that begins below zero: a record came before the first record of its chunk
C16_Witness ==
  /\ resp.op = "merge" /\ resp.status = 200
  /\ Len(merged) >= 2
  /\ merged[1].timestamp < 0

(* C17: the merge of one chunk whose timestamps are ascending and start at zero has
   the same timestamps in the same order, and merging that output again gives the
   same output. *)
C17_SingleChunkIdempotent ==
  [][( /\ MergeRespond
       /\ Len(parts) = 1
       /\ EventsOf(parts[1]) # <<>>
       /\ Ascending(EventsOf(parts[1]))
       /\ EventsOf(parts[1])[1].timestamp = 0 )
       => /\ Timestamps(merged') = Timestamps(EventsOf(parts[1]))
          /\ [i \in DOMAIN merged' |-> merged'[i].type] = [i \in DOMAIN merged' |-> EventsOf(parts[1])[i].type]
          /\ mergeRrwebEvents(<<Part(JsonArray(merged'))>>) = merged']_vars

\* the merge of the single chunk [0, 500] was sent
C17_Witness ==
  /\ resp.op = "merge" /\ resp.status = 200
  /\ Timestamps(merged) = <<0, 500>>

(* C18: the merge drops no record and removes no duplicate: the output has as many
   records as the event arrays of the chunks together. *)
C18_NothingDropped ==
  [][MergeRespond => Len(merged') = Len(Flat(parts))]_vars

\* an output with two equal records
C18_Witness ==
  /\ resp.op = "merge" /\ resp.status = 200
  /\ \E i \in DOMAIN merged, j \in DOMAIN merged : i # j /\ merged[i] = merged[j]

\* every rewritten record of a chunk is later than every rewritten record of the chunks before it
Apart(chunks) ==
  LET out == MergeLoop(chunks, 0, <<>>)
  IN  \A i \in DOMAIN out, j \in DOMAIN out :
        ChunkAt(chunks, i) < ChunkAt(chunks, j) => out[i].timestamp < out[j].timestamp

\* the timestamps the merge reads in a chunk do not decrease
OrderedChunk(events) ==
  \A i \in DOMAIN events, j \in DOMAIN events :
    i < j => TimestampOr(events[i], TimestampOr(events[1], now))
               <= TimestampOr(events[j], TimestampOr(events[1], now))

(* C19: in the merged output every record of a chunk has a timestamp strictly
   greater than every record of the chunks before it, so the records of two
   chunks never interleave.  A chunk whose last record is 1000 ms or more before
   an earlier record of it lets the next chunk start before that chunk ends. *)
C19_ChunksNeverInterleave ==
  [][MergeRespond => Apart(parts)]_vars

(* C19 as amended: when the timestamps of every chunk do not decrease, every
   record of a chunk has a timestamp strictly greater than every record of the
   chunks before it, and the output is in the order of the input. *)
C19_OrderedChunksNeverInterleave ==
  [][(MergeRespond /\ \A k \in DOMAIN parts : OrderedChunk(EventsOf(parts[k])))
       => (Apart(parts) /\ merged' = MergeLoop(parts, 0, <<>>))]_vars

\* the merge of [0, 500] and a chunk of one record was sent
C19_Witness ==
  /\ resp.op = "merge" /\ resp.status = 200
  /\ Timestamps(merged) = <<0, 500, 1500>>

(* C20: in every output record whose data carries a timestamp, that timestamp is the
   record's top-level timestamp, and a record whose data carries no timestamp
   leaves the merge with its data as it was.  The merge writes data.timestamp
   into every data object, also into one that had none. *)
C20_EmbeddedTimestamp ==
  [][MergeRespond =>
       /\ \A i \in DOMAIN merged' :
            merged'[i].data.timestamp # NoTimestamp => merged'[i].data.timestamp = merged'[i].timestamp
       /\ \A i \in DOMAIN Flat(parts) :
            Flat(parts)[i].data.timestamp = NoTimestamp =>
              \E j \in DOMAIN merged' :
                /\ merged'[j].type = Flat(parts)[i].type
                /\ merged'[j].data = Flat(parts)[i].data]_vars

-----------------------------------------------------------------------------
(* C21: a session stays in the registry until a finalize removes it: a step that
   takes a session object out of the registry is the completion of a finish or
   finish-beacon for its id, no other step (start, chunk, beacon, refused call,
   call on another id) does, and an object that enters the registry is a new one,
   so that an object is removed once. *)
C21_RemovedOnlyByFinalize ==
  [][/\ \A id \in DOMAIN sessions :
          (id \notin DOMAIN sessions' \/ sessions'[id].oid # sessions[id].oid)
            => \E call \in BagToSet(pending) : call.sessionId = id /\ FinishResolve(call)
     /\ \A id \in DOMAIN sessions' :
          (id \notin DOMAIN sessions \/ sessions'[id].oid # sessions[id].oid)
            => sessions'[id].oid > created]_vars

\* a finish was answered "uploaded" and the session of the other id is still there with its events
C21_Witness ==
  /\ resp.body = "uploaded"
  /\ \E id \in DOMAIN sessions : Len(sessions[id].events) > 0

(* C22: a start or chunk on an id that has a session does not replace it: start
   leaves the registry as it is and returns the token the session has; chunk keeps
   the object, its meta, startedAt and token and the events it held, and touches
   no other session. *)
C22_ExistingSessionKept ==
  [][\A sessionId \in DOMAIN sessions :
       /\ \A meta \in StartMetaInputs :
            (Start(sessionId, REPLAY_SECRET, meta) /\ resp'.status = 200)
              => /\ sessions' = sessions
                 /\ resp'.sessionToken = sessions[sessionId].token
       /\ \A events \in EventsInputs :
            (Chunk(sessionId, REPLAY_SECRET, events) /\ resp'.status = 200)
              => /\ DOMAIN sessions' = DOMAIN sessions
                 /\ \A id \in DOMAIN sessions \ {sessionId} : sessions'[id] = sessions[id]
                 /\ sessions'[sessionId].oid = sessions[sessionId].oid
                 /\ sessions'[sessionId].meta = sessions[sessionId].meta
                 /\ sessions'[sessionId].startedAt = sessions[sessionId].startedAt
                 /\ sessions'[sessionId].token = sessions[sessionId].token
                 /\ SubSeq(sessions'[sessionId].events, 1, Len(sessions[sessionId].events))
                      = sessions[sessionId].events]_vars

\* a start was accepted for a session that holds events, and returned its token
C22_Witness ==
  /\ resp.op = "start" /\ resp.status = 200 /\ ~Falsy(resp.sessionToken)
  /\ \E id \in DOMAIN sessions :
       sessions[id].token = resp.sessionToken /\ Len(sessions[id].events) > 0

\* the chunks that hold at least one record
NonEmptyChunks(chunks) == SelectSeq(chunks, LAMBDA chunk : EventsOf(chunk) # <<>>)

(* C23: a chunk with an empty events sequence, or without an events sequence,
   contributes no record and does not advance the offset: the output of the merge
   is the output of the merge of the chunks that hold records. *)
C23_EmptyChunksContributeNothing ==
  [][MergeRespond => merged' = mergeRrwebEvents(NonEmptyChunks(parts))]_vars

\* a merge was sent whose first chunk had no events sequence and whose second one had records
C23_Witness ==
  /\ resp.op = "merge" /\ resp.status = 200
  /\ Len(parts) = 2
  /\ ~parts[1].events.isArray
  /\ Len(merged) = 2

\* the place in Flat(chunks) of the first record of chunk k
FirstOf(chunks, k) == Fetched(SubSeq(chunks, 1, k - 1)) + 1

\* the chunks after chunk k that hold records
Following(chunks, k) == {j \in DOMAIN chunks : j > k /\ EventsOf(chunks[j]) # <<>>}

(* C24: a chunk with exactly one record gives that record delta 0 and advances the
   running offset by exactly 1000 ms: the record of a first such chunk is written
   at 0, the first record of the next chunk that holds records is written 1000 ms
   after it, and the merge of chunks of one record each has the timestamps
   0, 1000, 2000, ... whatever timestamps the records came with. *)
C24_SingleRecordChunk ==
  [][MergeRespond =>
       LET out == MergeLoop(parts, 0, <<>>)
       IN  /\ \A k \in DOMAIN parts :
                Len(EventsOf(parts[k])) = 1 =>
                  /\ Fetched(SubSeq(parts, 1, k - 1)) = 0 => out[FirstOf(parts, k)].timestamp = 0
                  /\ \A j \in Following(parts, k) :
                       (\A m \in Following(parts, k) : j <= m)
                         => out[FirstOf(parts, j)].timestamp = out[FirstOf(parts, k)].timestamp + 1000
           /\ (\A k \in DOMAIN parts : Len(EventsOf(parts[k])) = 1)
                => Timestamps(merged') = [i \in DOMAIN parts |-> (i - 1) * 1000]]_vars

\* the merge of a chunk of one record at 500 and a chunk of one record at 2000 was sent
C24_Witness ==
  /\ resp.op = "merge" /\ resp.status = 200
  /\ Len(parts) = 2
  /\ Timestamps(EventsOf(parts[1])) = <<500>>
  /\ Timestamps(EventsOf(parts[2])) = <<2000>>
  /\ Timestamps(merged) = <<0, 1000>>

\* whether the record carries a time at all
HasTime(e) == e.timestamp # NoTimestamp \/ e.data.timestamp # NoTimestamp

\* the time of a record that carries one: the top-level timestamp first, data.timestamp as fallback
Located(e) == IF e.timestamp # NoTimestamp THEN e.timestamp ELSE e.data.timestamp

(* C25: the merge reads a record's time at the top-level timestamp first and at
   data.timestamp as fallback, and writes the record that far from the first
   record of its chunk; a record with neither is written at the running offset
   of its chunk, which is where the first record of the chunk is written. *)
C25_TimeLocated ==
  [][MergeRespond =>
       LET out == MergeLoop(parts, 0, <<>>)
           flat == Flat(parts)
       IN  /\ \A i \in DOMAIN flat :
                LET first == FirstOf(parts, ChunkAt(parts, i))
                    base == IF HasTime(flat[first]) THEN Located(flat[first]) ELSE now
                IN  /\ HasTime(flat[i]) => out[i].timestamp = out[first].timestamp + (Located(flat[i]) - base)
                    /\ ~HasTime(flat[i]) => out[i].timestamp = out[first].timestamp
                    /\ \E j \in DOMAIN merged' : merged'[j] = out[i]
           /\ Len(merged') = Len(out)]_vars

\* the merge of a chunk [0, 900 with an embedded 100, a record without any time] was sent
C25_Witness ==
  /\ resp.op = "merge" /\ resp.status = 200
  /\ Len(parts) = 1
  /\ Len(EventsOf(parts[1])) = 3
  /\ EventsOf(parts[1])[2] = RrwebEvent(3, 900, Data(100))
  /\ ~HasTime(EventsOf(parts[1])[3])
  /\ Timestamps(merged) = <<0, 0, 900>>

\* the reasons for which the beacon lookup fails: no such session, no token, another token
NoSuchSession(sessionId, token) == ~has(sessionId)

MissingToken(sessionId, token) == has(sessionId) /\ Falsy(token)

WrongToken(sessionId, token) == has(sessionId) /\ ~Falsy(token) /\ sessions[sessionId].token # token

\* the steps a beacon handler can take: it answers under its route, or it calls the publisher
BeaconStep == resp'.op \in {"chunk-beacon", "finish-beacon"} \/ pending' # pending

(* C26: the unauthorized answer of the beacon routes does not tell why the lookup
   failed: a beacon call that names no existing session, one without a token and
   one with a wrong token for an existing session get the same response, 401
   "unauthorized" with no other field, and leave the registry and the publisher
   calls as they are. *)
C26_UnauthorizedSaysNoReason ==
  [][BeaconStep => \A sessionId \in SessionIdInputs, token \in TokenInputs :
       ( \/ NoSuchSession(sessionId, token)
         \/ MissingToken(sessionId, token)
         \/ WrongToken(sessionId, token) ) =>
         /\ \/ resp' = Response("chunk-beacon", 401, "unauthorized")
                 /\ UNCHANGED <<sessions, created, pending>>
            \/ ~ \E events \in EventsInputs : ChunkBeacon(Body(sessionId, token, events, UndefinedMeta))
         /\ \/ resp' = Response("finish-beacon", 401, "unauthorized")
                 /\ UNCHANGED <<sessions, created, pending>>
            \/ ~ \E meta \in FinishMetaInputs : FinishBeaconBegin(Body(sessionId, token, NotArray, meta))]_vars

\* a beacon was refused while one id has a session with a token and the other id has none
C26_Witness ==
  /\ resp = Response("chunk-beacon", 401, "unauthorized")
  /\ \E a \in Ids, b \in Ids :
       /\ has(a) /\ ~Falsy(sessions[a].token)
       /\ ~has(b)

\* the registry after the session under id has been touched at the current time and nothing else
Touched(id) == [sessions EXCEPT ![id].lastChunkAt = now]

(* C27: an accepted append of no events is answered with success, leaves the events
   of the session as they are and refreshes only its last-activity time: a chunk
   with an empty array (on a fresh id the new session holds no events), and a
   chunk-beacon whose events are an empty array or not an array. *)
C27_EmptyAppendOnlyRefreshes ==
  [][/\ (resp'.op = "chunk" /\ resp'.status = 200) =>
          \A sessionId \in Ids :
            Chunk(sessionId, REPLAY_SECRET, Arr(<<>>)) =>
              /\ resp' = Response("chunk", 200, "ok")
              /\ pending' = pending
              /\ has(sessionId) => sessions' = Touched(sessionId)
              /\ ~has(sessionId) =>
                   /\ DOMAIN sessions' = DOMAIN sessions \cup {sessionId}
                   /\ \A id \in DOMAIN sessions : sessions'[id] = sessions[id]
                   /\ sessions'[sessionId].events = <<>>
                   /\ sessions'[sessionId].lastChunkAt = now
     /\ (resp'.op = "chunk-beacon" /\ resp'.status = 200) =>
          \A sessionId \in DOMAIN sessions, events \in {Arr(<<>>), NotArray} :
            ChunkBeacon(Body(sessionId, sessions[sessionId].token, events, UndefinedMeta)) =>
              /\ resp' = Response("chunk-beacon", 200, "ok")
              /\ pending' = pending
              /\ created' = created
              /\ sessions' = Touched(sessionId)]_vars

\* a chunk was accepted and a started session holds no events and has a last-activity time
C27_Witness ==
  /\ resp.op \in {"chunk", "chunk-beacon"} /\ resp.status = 200
  /\ \E id \in DOMAIN sessions :
       /\ ~Falsy(sessions[id].token)
       /\ sessions[id].events = <<>>
       /\ sessions[id].lastChunkAt = now

(* C28: no acknowledged event is lost to a finish: when the upload of a finish or
   finish-beacon completes, the events buffered under its id, those of chunks
   acknowledged while the handler waited included, are all in the artifact it
   published or are still buffered under that id.  The handler serialises the
   buffer before the upload and deletes the id after it, so the events of a chunk
   acknowledged in between are in neither. *)
C28_AcknowledgedEventsSurviveFinish ==
  [][\A call \in BagToSet(pending) :
       (FinishResolve(call) /\ has(call.sessionId)) =>
         \/ sessions[call.sessionId].events = <<>>
         \/ /\ call.s = sessions[call.sessionId].oid
            /\ call.data.events = sessions[call.sessionId].events
         \/ /\ call.sessionId \in DOMAIN sessions'
            /\ sessions'[call.sessionId].events = sessions[call.sessionId].events]_vars

\* the n-th session object is not the one registered under the id: it never was, or a finalize removed it
Retired(sessionId, n) == ~has(sessionId) \/ sessions[sessionId].oid # n

(* C29: the token of a session that a finalize removed authenticates nothing: a
   beacon that carries, for an id, the token minted for a session object that is
   not the one registered under the id is answered 401 unauthorized and changes
   nothing, also when a later start or chunk registered a new session under the id. *)
C29_OldTokenRejected ==
  [][BeaconStep =>
       \A sessionId \in Ids, n \in 1..created :
         Retired(sessionId, n) =>
           \/ Refused
           \/ ~ \/ \E events \in EventsInputs :
                     ChunkBeacon(Body(sessionId, TokenOf(n), events, UndefinedMeta))
                \/ \E meta \in FinishMetaInputs :
                     FinishBeaconBegin(Body(sessionId, TokenOf(n), NotArray, meta))]_vars

\* a beacon was refused while a started session is registered under an id whose first
\* session is gone, and a finish that read that first session is still waiting
C29_Witness ==
  /\ resp.op \in {"chunk-beacon", "finish-beacon"} /\ resp.status = 401
  /\ \E id \in DOMAIN sessions :
       /\ sessions[id].oid = 2
       /\ sessions[id].token = TokenOf(2)
       /\ \E call \in BagToSet(pending) : call.sessionId = id /\ call.s = 1

(* C30: the header gate fails closed: when no secret is configured, every start,
   chunk and finish is answered 401 unauthorized and changes nothing, whatever
   header it carries: none, an empty one, the usual secret or any other value. *)
C30_NoSecretFailsClosed ==
  [][Falsy(REPLAY_SECRET) =>
       \A sessionId \in SessionIdInputs, incoming \in HeaderInputs :
         \/ Refused
         \/ ~ \/ \E meta \in StartMetaInputs : Start(sessionId, incoming, meta)
              \/ \E events \in EventsInputs : Chunk(sessionId, incoming, events)
              \/ \E meta \in FinishMetaInputs : FinishBegin(sessionId, incoming, meta)]_vars

\* a server without a secret refused a chunk and holds no session
C30_Witness ==
  /\ REPLAY_SECRET = ""
  /\ resp = Response("chunk", 401, "unauthorized")
  /\ sessions = EmptyMap

\* the ids whose session appears, disappears or changes in this step
Changed ==
  {id \in DOMAIN sessions \cup DOMAIN sessions' :
     \/ id \notin DOMAIN sessions
     \/ id \notin DOMAIN sessions'
     \/ sessions'[id] # sessions[id]}

\* the step is a request that names sessionId, or the completion of a finish that named it
Names(sessionId) ==
  \/ \E incoming \in HeaderInputs, meta \in StartMetaInputs : Start(sessionId, incoming, meta)
  \/ \E incoming \in HeaderInputs, events \in EventsInputs : Chunk(sessionId, incoming, events)
  \/ \E token \in TokenInputs, events \in EventsInputs :
       ChunkBeacon(Body(sessionId, token, events, UndefinedMeta))
  \/ \E call \in BagToSet(pending) : call.sessionId = sessionId /\ FinishResolve(call)

(* C31: sessions are isolated: a step changes the session of at most one id, and it
   is a start, chunk or chunk-beacon that names that id or the completion of a
   finish that named it, so a request that names A leaves the events, meta, token
   and presence of every other session as they are; and the artifact a finish
   hands to the publisher for A holds the events buffered under A and no others. *)
C31_SessionsIsolated ==
  [][/\ \/ Changed = {}
        \/ \E sessionId \in Changed : Changed = {sessionId} /\ Names(sessionId)
     /\ \A call \in BagToSet(pending') :
          Entering(call) =>
            /\ call.data.sessionId = call.sessionId
            /\ call.data.events = IF has(call.sessionId) THEN sessions[call.sessionId].events ELSE <<>>]_vars

\* a chunk was accepted while the two ids hold different events and a finish of s1 waits with the events of s1
C31_Witness ==
  /\ resp.op \in {"chunk", "chunk-beacon"} /\ resp.status = 200
  /\ has("s1") /\ has("s2")
  /\ sessions["s1"].events = <<Event(10)>>
  /\ sessions["s2"].events = <<Event(20)>>
  /\ \E call \in BagToSet(pending) : call.sessionId = "s1" /\ call.data.events = <<Event(10)>>

\* the first record of every chunk that holds records carries a time
BasesGiven(chunks) ==
  \A k \in DOMAIN chunks : EventsOf(chunks[k]) # <<>> => HasTime(EventsOf(chunks[k])[1])

\* the merge of the chunks after the step, its loop and then its sort, equals their merge before it
SameMergeLater ==
  \A later \in {MergeLoop(parts, 0, <<>>)'} : SortByTimestamp(later) = mergeRrwebEvents(parts)

(* C32: the merge leaves its input unchanged, so merging the same input twice
   yields equal outputs: the chunks hold the same records after the call, and the
   merge of the same chunks before and after the clock moved is the same.  A chunk
   whose first record carries no time takes Date.now() as its base, and the
   rewritten timestamps of its later records then depend on the time of the merge. *)
C32_MergeRepeatable ==
  [][/\ MergeRespond => parts' = parts
     /\ Tick(1) => SameMergeLater]_vars

(* C32 as amended: the merge leaves its input unchanged, and merging the same input
   twice yields equal outputs when the first record of every chunk that holds
   records carries a timestamp, top-level or embedded. *)
C32_MergeRepeatableWithBases ==
  [][/\ MergeRespond => parts' = parts
     /\ (Tick(1) /\ BasesGiven(parts)) => SameMergeLater]_vars

\* after the clock moved, a merge of two chunks with timed first records was sent, and the
\* chunks still hold their own timestamps where the output holds rewritten ones
C32_Witness ==
  /\ resp.op = "merge" /\ resp.status = 200
  /\ now = MaxNow
  /\ Len(parts) = 2
  /\ BasesGiven(parts)
  /\ Timestamps(EventsOf(parts[1])) = <<500>>
  /\ Timestamps(EventsOf(parts[2])) = <<900, 2000>>
  /\ Timestamps(merged) = <<0, 1000, 2100>>

====
